---- MODULE Spec2Model ----
(***************************************************************************)
(* State bridge of @libis/primo-shared-state: StateHelper, the three       *)
(* state services (SearchStateService, UserStateService,                   *)
(* FilterStateService) and the action creators of shared-actions, over a   *)
(* host-owned NgRx store.                                                  *)
(***************************************************************************)
EXTENDS Integers, Sequences, FiniteSets, TLC

VARIABLES
    state,       \* the store's current root state (a JavaScript object)
    emitted,     \* TRUE once the store's state stream has a value to replay
    rd,          \* the client's reader: a subscription, a snapshot or a cell
    calls,       \* the client's write calls so far, in call order
    dispatched,  \* the actions that reached Store.dispatch, in arrival order
    subs         \* the subscriptions taken on the stream of one projection

vars == <<state, emitted, rd, calls, dispatched, subs>>

(***************************************************************************)
(* Bounds.                                                                 *)
(***************************************************************************)
MaxCalls == 2
MaxSubs == 2

(***************************************************************************)
(* JavaScript values.  Every value is a record tagged by its typeof.       *)
(***************************************************************************)
Undefined == [t |-> "undefined"]
Null == [t |-> "null"]
Str(s) == [t |-> "string", v |-> s]
Num(n) == [t |-> "number", v |-> n]
Bool(b) == [t |-> "boolean", v |-> b]
Arr(q) == [t |-> "array", v |-> q]
Obj(r) == [t |-> "object", v |-> r]
\* the TypeError a property read on undefined or null throws
TypeError == [t |-> "TypeError"]

IsNullish(x) == x.t \in {"undefined", "null", "TypeError"}

\* o.k
Get(o, k) ==
    IF o.t \in {"undefined", "null", "TypeError"} THEN TypeError
    ELSE IF o.t = "object" /\ k \in DOMAIN o.v THEN o.v[k]
    ELSE Undefined

\* o?.k
OptGet(o, k) ==
    IF o.t \in {"undefined", "null"} THEN Undefined ELSE Get(o, k)

\* ToBoolean(x)
Truthy(x) ==
    CASE x.t \in {"undefined", "null"} -> FALSE
      [] x.t = "boolean" -> x.v
      [] x.t = "number" -> x.v # 0
      [] x.t = "string" -> x.v # ""
      [] OTHER -> TRUE

\* a || b
Or(a, b) == IF a.t = "TypeError" THEN a ELSE IF Truthy(a) THEN a ELSE b

\* a === b on primitives
StrictEq(a, b) == IF a.t = "TypeError" THEN a ELSE Bool(a = b)

\* the order in which Object.values walks the keys of an entity dictionary
KeyOrder == <<"a", "b">>

RECURSIVE ValuesFrom(_, _)
ValuesFrom(o, i) ==
    IF i > Len(KeyOrder) THEN <<>>
    ELSE IF KeyOrder[i] \in DOMAIN o.v
         THEN <<o.v[KeyOrder[i]]>> \o ValuesFrom(o, i + 1)
         ELSE ValuesFrom(o, i + 1)

\* Object.values(o)
ObjectValues(o) == ValuesFrom(o, 1)

\* a filter that lets every value of the dictionary through
IsDefinedDoc_keepAll(doc) == TRUE

IsDefinedDoc(doc) == doc # Undefined

\* Object.values(entities).filter(doc => doc !== undefined)
DefinedDocs(entities) == Arr(SelectSeq(ObjectValues(entities), IsDefinedDoc))

(***************************************************************************)
(* The store states the host can produce.                                  *)
(***************************************************************************)
DocIds == {"a", "b"}
DocA == Obj([recordId |-> Str("a")])
DocB == Obj([recordId |-> Str("b")])
NoEntities == Obj(<<>>)

LoadingStatus == {"pending", "loading", "success", "fail"}

Params1 == Obj([q |-> Str("angular"), scope |-> Str("Everything")])
Params2 == Obj([q |-> Str("rxjs"), scope |-> Str("Library")])

\* (entities, searchParams, searchResultsMetaData, selectedPageSize)
SearchData ==
    { <<NoEntities, Null, Null, Null>>,
      <<Obj([a |-> DocA, b |-> Undefined]), Params1,
        Obj([info |-> Obj([total |-> Num(1)])]), Num(10)>>,
      <<Undefined, Params1, Obj([info |-> Undefined]), Null>> }

\* the Search slice with every status and data, and one without a status
SearchSlices ==
    { Obj([status |-> Str(st), entities |-> d[1], searchParams |-> d[2],
           searchResultsMetaData |-> d[3], selectedPageSize |-> d[4]]) :
        st \in LoadingStatus, d \in SearchData }
    \cup { Obj([status |-> Undefined, entities |-> NoEntities,
                searchParams |-> Null, searchResultsMetaData |-> Null,
                selectedPageSize |-> Null]) }

\* (jwt, decodedJwt, userSettings)
UserData ==
    { <<Undefined, Undefined, Undefined>>,
      <<Str("jwt1"), Obj([userName |-> Str("u1"), userGroup |-> Str("")]),
        Obj([language |-> Str("en")])>>,
      <<Str("jwt1"), Obj([userName |-> Str("u1"), userGroup |-> Str("STAFF")]),
        Obj([language |-> Str("en")])>>,
      <<Str("jwt1"), Obj([userName |-> Str("u1")]), Undefined>> }

UserSlices ==
    { Obj([jwt |-> d[1], decodedJwt |-> d[2], isLoggedIn |-> Bool(b),
           userSettings |-> d[3]]) :
        b \in BOOLEAN, d \in UserData }

Facet1 == Obj([name |-> Str("rtype"), values |-> Arr(<<Str("books")>>)])

FilterSlices ==
    { Obj([includedFilter |-> Null, excludedFilter |-> Null,
           multiSelectedFilter |-> Null, resourceTypeFilter |-> Null,
           isFiltersOpen |-> Bool(FALSE), isRememberAll |-> Bool(FALSE)]),
      Obj([includedFilter |-> Arr(<<Facet1>>), excludedFilter |-> Arr(<<>>),
           multiSelectedFilter |-> Arr(<<Facet1>>),
           resourceTypeFilter |-> Obj([resourceType |-> Str("books")]),
           isFiltersOpen |-> Bool(TRUE), isRememberAll |-> Bool(TRUE)]) }

SliceKeys == {"Search", "user", "filters"}

SliceValues(k) ==
    CASE k = "Search" -> SearchSlices \cup {Undefined}
      [] k = "user" -> UserSlices \cup {Undefined}
      [] k = "filters" -> FilterSlices \cup {Undefined}

\* the store states the host moves through while subscriptions are watched
StreamSlices(k) ==
    CASE k = "Search" ->
             { Undefined,
               Obj([status |-> Str("loading"), entities |-> NoEntities,
                    searchParams |-> Null, searchResultsMetaData |-> Null,
                    selectedPageSize |-> Null]),
               Obj([status |-> Str("success"),
                    entities |-> Obj([a |-> DocA, b |-> Undefined]),
                    searchParams |-> Params1,
                    searchResultsMetaData |-> Obj([info |-> Obj([total |-> Num(1)])]),
                    selectedPageSize |-> Num(10)]),
               Obj([status |-> Str("success"),
                    entities |-> Obj([a |-> DocA, b |-> DocB]),
                    searchParams |-> Params1,
                    searchResultsMetaData |-> Obj([info |-> Obj([total |-> Num(2)])]),
                    selectedPageSize |-> Num(10)]),
               Obj([status |-> Str("fail"), entities |-> Undefined,
                    searchParams |-> Params1,
                    searchResultsMetaData |-> Obj([info |-> Undefined]),
                    selectedPageSize |-> Null]) }
      [] k = "user" ->
             { Undefined,
               Obj([jwt |-> Str("jwt1"),
                    decodedJwt |-> Obj([userName |-> Str("u1"),
                                        userGroup |-> Str("STAFF")]),
                    isLoggedIn |-> Bool(TRUE),
                    userSettings |-> Obj([language |-> Str("en")])]) }
      [] k = "filters" ->
             { Undefined,
               Obj([includedFilter |-> Arr(<<Facet1>>), excludedFilter |-> Arr(<<>>),
                    multiSelectedFilter |-> Arr(<<Facet1>>),
                    resourceTypeFilter |-> Obj([resourceType |-> Str("books")]),
                    isFiltersOpen |-> Bool(TRUE), isRememberAll |-> Bool(TRUE)]) }

\* the root state before any feature slice is registered
EmptyState == Obj([Search |-> Undefined, user |-> Undefined, filters |-> Undefined])

SliceAbsent(s, k) == Get(s, k) = Undefined

(***************************************************************************)
(* SearchStateService: the projections, as written in each method.         *)
(***************************************************************************)
selectAllDocs(s) ==
    LET searchState == Get(s, "Search")
    IN  IF ~Truthy(OptGet(searchState, "entities")) THEN Arr(<<>>)
        ELSE DefinedDocs(Get(searchState, "entities"))

selectDocById(s, id) == OptGet(OptGet(Get(s, "Search"), "entities"), id)

selectSearchParams(s) == OptGet(Get(s, "Search"), "searchParams")

selectSearchMetaData(s) == OptGet(Get(s, "Search"), "searchResultsMetaData")

selectSearchStatus(s) == Or(OptGet(Get(s, "Search"), "status"), Str("pending"))

selectTotalResults(s) ==
    Or(OptGet(OptGet(OptGet(Get(s, "Search"), "searchResultsMetaData"), "info"), "total"),
       Num(0))

selectPageSize(s) == OptGet(Get(s, "Search"), "selectedPageSize")

\* selectIsLoading$ as "the status is not 'pending'"
selectIsLoading_notPending(s) ==
    Bool(OptGet(Get(s, "Search"), "status") # Str("pending"))

selectIsLoading(s) == StrictEq(OptGet(Get(s, "Search"), "status"), Str("loading"))

\* getAllDocs returning the entity dictionary's absence as it finds it
getAllDocs_noDefault(s) ==
    LET entities == OptGet(Get(s, "Search"), "entities")
    IN  IF ~Truthy(entities) THEN entities ELSE DefinedDocs(entities)

getAllDocs(s) ==
    LET searchState == Get(s, "Search")
    IN  IF ~Truthy(OptGet(searchState, "entities")) THEN Arr(<<>>)
        ELSE DefinedDocs(Get(searchState, "entities"))

getDocById(s, id) == OptGet(OptGet(Get(s, "Search"), "entities"), id)

getSearchParams(s) == OptGet(Get(s, "Search"), "searchParams")

allDocsSignal(s) ==
    LET searchState == Get(s, "Search")
    IN  IF ~Truthy(OptGet(searchState, "entities")) THEN Arr(<<>>)
        ELSE DefinedDocs(Get(searchState, "entities"))

searchParamsSignal(s) == OptGet(Get(s, "Search"), "searchParams")

searchMetaDataSignal(s) == OptGet(Get(s, "Search"), "searchResultsMetaData")

searchStatusSignal(s) == Or(OptGet(Get(s, "Search"), "status"), Str("pending"))

totalResultsSignal(s) ==
    Or(OptGet(OptGet(OptGet(Get(s, "Search"), "searchResultsMetaData"), "info"), "total"),
       Num(0))

pageSizeSignal(s) == OptGet(Get(s, "Search"), "selectedPageSize")

isLoadingSignal(s) == StrictEq(OptGet(Get(s, "Search"), "status"), Str("loading"))

(***************************************************************************)
(* UserStateService: the projections.                                      *)
(***************************************************************************)
selectUserState(s) == Get(s, "user")

selectJwt(s) == OptGet(Get(s, "user"), "jwt")

selectDecodedJwt(s) == OptGet(Get(s, "user"), "decodedJwt")

selectIsLoggedIn(s) == OptGet(Get(s, "user"), "isLoggedIn")

selectUserSettings(s) == OptGet(Get(s, "user"), "userSettings")

selectUserName(s) == OptGet(OptGet(Get(s, "user"), "decodedJwt"), "userName")

\* selectUserGroup$ without its || 'GUEST'
selectUserGroup_noDefault(s) ==
    OptGet(OptGet(Get(s, "user"), "decodedJwt"), "userGroup")

selectUserGroup(s) ==
    Or(OptGet(OptGet(Get(s, "user"), "decodedJwt"), "userGroup"), Str("GUEST"))

getJwt(s) == OptGet(Get(s, "user"), "jwt")

isLoggedIn(s) == Or(OptGet(Get(s, "user"), "isLoggedIn"), Bool(FALSE))

getUserSettings(s) == OptGet(Get(s, "user"), "userSettings")

userStateSignal(s) == Get(s, "user")

jwtSignal(s) == OptGet(Get(s, "user"), "jwt")

decodedJwtSignal(s) == OptGet(Get(s, "user"), "decodedJwt")

\* isLoggedInSignal with the || false of the snapshot form
isLoggedInSignal_defaulted(s) ==
    Or(OptGet(Get(s, "user"), "isLoggedIn"), Bool(FALSE))

isLoggedInSignal(s) == OptGet(Get(s, "user"), "isLoggedIn")

userSettingsSignal(s) == OptGet(Get(s, "user"), "userSettings")

userNameSignal(s) == OptGet(OptGet(Get(s, "user"), "decodedJwt"), "userName")

userGroupSignal(s) ==
    Or(OptGet(OptGet(Get(s, "user"), "decodedJwt"), "userGroup"), Str("GUEST"))

(***************************************************************************)
(* FilterStateService: the projections.                                    *)
(***************************************************************************)
selectFilterState(s) == Get(s, "filters")

selectIncludedFilters(s) == OptGet(Get(s, "filters"), "includedFilter")

selectExcludedFilters(s) == OptGet(Get(s, "filters"), "excludedFilter")

selectMultiSelectedFilters(s) == OptGet(Get(s, "filters"), "multiSelectedFilter")

selectResourceTypeFilter(s) == OptGet(Get(s, "filters"), "resourceTypeFilter")

selectIsFiltersOpen(s) == Or(OptGet(Get(s, "filters"), "isFiltersOpen"), Bool(FALSE))

selectIsRememberAll(s) == Or(OptGet(Get(s, "filters"), "isRememberAll"), Bool(FALSE))

getIncludedFilters(s) == OptGet(Get(s, "filters"), "includedFilter")

getExcludedFilters(s) == OptGet(Get(s, "filters"), "excludedFilter")

getMultiSelectedFilters(s) == OptGet(Get(s, "filters"), "multiSelectedFilter")

\* the Signal API of FilterStateService, as the README's API reference
\* documents it: the projection of the stream form of the same name
filterStateSignal(s) == selectFilterState(s)

includedFiltersSignal(s) == selectIncludedFilters(s)

excludedFiltersSignal(s) == selectExcludedFilters(s)

multiSelectedFiltersSignal(s) == selectMultiSelectedFilters(s)

resourceTypeFilterSignal(s) == selectResourceTypeFilter(s)

isFiltersOpenSignal(s) == selectIsFiltersOpen(s)

isRememberAllSignal(s) == selectIsRememberAll(s)

(***************************************************************************)
(* The read methods by name, the slice each reads, and the projection a    *)
(* call of the method hands to StateHelper.                                *)
(***************************************************************************)
SearchStreams ==
    {"selectAllDocs$", "selectDocById$", "selectSearchParams$",
     "selectSearchMetaData$", "selectSearchStatus$", "selectTotalResults$",
     "selectPageSize$", "selectIsLoading$"}
UserStreams ==
    {"selectUserState$", "selectJwt$", "selectDecodedJwt$", "selectIsLoggedIn$",
     "selectUserSettings$", "selectUserName$", "selectUserGroup$"}
FilterStreams ==
    {"selectFilterState$", "selectIncludedFilters$", "selectExcludedFilters$",
     "selectMultiSelectedFilters$", "selectResourceTypeFilter$",
     "selectIsFiltersOpen$", "selectIsRememberAll$"}
StreamOps == SearchStreams \cup UserStreams \cup FilterStreams

SearchSnapshots == {"getAllDocs", "getDocById", "getSearchParams"}
UserSnapshots == {"getJwt", "isLoggedIn", "getUserSettings"}
FilterSnapshots ==
    {"getIncludedFilters", "getExcludedFilters", "getMultiSelectedFilters"}
SnapshotOps == SearchSnapshots \cup UserSnapshots \cup FilterSnapshots

SearchSignals ==
    {"allDocsSignal", "searchParamsSignal", "searchMetaDataSignal",
     "searchStatusSignal", "totalResultsSignal", "pageSizeSignal",
     "isLoadingSignal"}
UserSignals ==
    {"userStateSignal", "jwtSignal", "decodedJwtSignal", "isLoggedInSignal",
     "userSettingsSignal", "userNameSignal", "userGroupSignal"}
FilterSignals ==
    {"filterStateSignal", "includedFiltersSignal", "excludedFiltersSignal",
     "multiSelectedFiltersSignal", "resourceTypeFilterSignal",
     "isFiltersOpenSignal", "isRememberAllSignal"}
SignalOps == SearchSignals \cup UserSignals \cup FilterSignals

\* the methods that take a document id
TakesId(op) == op \in {"selectDocById$", "getDocById"}

\* the arguments a read method can be called with ("" when it takes none)
IdsOf(op) == IF TakesId(op) THEN DocIds ELSE {""}

SliceOf(op) ==
    IF op \in SearchStreams \cup SearchSnapshots \cup SearchSignals THEN "Search"
    ELSE IF op \in UserStreams \cup UserSnapshots \cup UserSignals THEN "user"
    ELSE "filters"

Selector(op, id, s) ==
    CASE op = "selectAllDocs$" -> selectAllDocs(s)
      [] op = "selectDocById$" -> selectDocById(s, id)
      [] op = "selectSearchParams$" -> selectSearchParams(s)
      [] op = "selectSearchMetaData$" -> selectSearchMetaData(s)
      [] op = "selectSearchStatus$" -> selectSearchStatus(s)
      [] op = "selectTotalResults$" -> selectTotalResults(s)
      [] op = "selectPageSize$" -> selectPageSize(s)
      [] op = "selectIsLoading$" -> selectIsLoading(s)
      [] op = "getAllDocs" -> getAllDocs(s)
      [] op = "getDocById" -> getDocById(s, id)
      [] op = "getSearchParams" -> getSearchParams(s)
      [] op = "allDocsSignal" -> allDocsSignal(s)
      [] op = "searchParamsSignal" -> searchParamsSignal(s)
      [] op = "searchMetaDataSignal" -> searchMetaDataSignal(s)
      [] op = "searchStatusSignal" -> searchStatusSignal(s)
      [] op = "totalResultsSignal" -> totalResultsSignal(s)
      [] op = "pageSizeSignal" -> pageSizeSignal(s)
      [] op = "isLoadingSignal" -> isLoadingSignal(s)
      [] op = "selectUserState$" -> selectUserState(s)
      [] op = "selectJwt$" -> selectJwt(s)
      [] op = "selectDecodedJwt$" -> selectDecodedJwt(s)
      [] op = "selectIsLoggedIn$" -> selectIsLoggedIn(s)
      [] op = "selectUserSettings$" -> selectUserSettings(s)
      [] op = "selectUserName$" -> selectUserName(s)
      [] op = "selectUserGroup$" -> selectUserGroup(s)
      [] op = "getJwt" -> getJwt(s)
      [] op = "isLoggedIn" -> isLoggedIn(s)
      [] op = "getUserSettings" -> getUserSettings(s)
      [] op = "userStateSignal" -> userStateSignal(s)
      [] op = "jwtSignal" -> jwtSignal(s)
      [] op = "decodedJwtSignal" -> decodedJwtSignal(s)
      [] op = "isLoggedInSignal" -> isLoggedInSignal(s)
      [] op = "userSettingsSignal" -> userSettingsSignal(s)
      [] op = "userNameSignal" -> userNameSignal(s)
      [] op = "userGroupSignal" -> userGroupSignal(s)
      [] op = "selectFilterState$" -> selectFilterState(s)
      [] op = "selectIncludedFilters$" -> selectIncludedFilters(s)
      [] op = "selectExcludedFilters$" -> selectExcludedFilters(s)
      [] op = "selectMultiSelectedFilters$" -> selectMultiSelectedFilters(s)
      [] op = "selectResourceTypeFilter$" -> selectResourceTypeFilter(s)
      [] op = "selectIsFiltersOpen$" -> selectIsFiltersOpen(s)
      [] op = "selectIsRememberAll$" -> selectIsRememberAll(s)
      [] op = "getIncludedFilters" -> getIncludedFilters(s)
      [] op = "getExcludedFilters" -> getExcludedFilters(s)
      [] op = "getMultiSelectedFilters" -> getMultiSelectedFilters(s)
      [] op = "filterStateSignal" -> filterStateSignal(s)
      [] op = "includedFiltersSignal" -> includedFiltersSignal(s)
      [] op = "excludedFiltersSignal" -> excludedFiltersSignal(s)
      [] op = "multiSelectedFiltersSignal" -> multiSelectedFiltersSignal(s)
      [] op = "resourceTypeFilterSignal" -> resourceTypeFilterSignal(s)
      [] op = "isFiltersOpenSignal" -> isFiltersOpenSignal(s)
      [] op = "isRememberAllSignal" -> isRememberAllSignal(s)

\* the second argument each ...Signal() method passes to selectSignal
InitialDefault(op) ==
    CASE op = "allDocsSignal" -> Arr(<<>>)
      [] op = "searchParamsSignal" -> Null
      [] op = "searchMetaDataSignal" -> Null
      [] op = "searchStatusSignal" -> Str("pending")
      [] op = "totalResultsSignal" -> Num(0)
      [] op = "pageSizeSignal" -> Null
      [] op = "isLoadingSignal" -> Bool(FALSE)
      [] op = "userStateSignal" -> Obj(<<>>)
      [] op = "jwtSignal" -> Undefined
      [] op = "decodedJwtSignal" -> Undefined
      [] op = "isLoggedInSignal" -> Bool(FALSE)
      [] op = "userSettingsSignal" -> Undefined
      [] op = "userNameSignal" -> Undefined
      [] op = "userGroupSignal" -> Str("GUEST")
      [] op = "filterStateSignal" -> Obj(<<>>)
      [] op = "includedFiltersSignal" -> Null
      [] op = "excludedFiltersSignal" -> Null
      [] op = "multiSelectedFiltersSignal" -> Null
      [] op = "resourceTypeFilterSignal" -> Null
      [] op = "isFiltersOpenSignal" -> Bool(FALSE)
      [] op = "isRememberAllSignal" -> Bool(FALSE)

(***************************************************************************)
(* shared-actions: createAction and the exported action creators.          *)
(***************************************************************************)
NoProps == <<>>

\* createAction(type, props<P>()): the creator merges the type into the props
createAction(type, props) == [type |-> type, props |-> props]

searchAction(props) == createAction("[Search] Load search", props)
searchSuccessAction(props) == createAction("[Search] Load search success", props)
searchFailedAction == createAction("[Search] Load search failed", NoProps)
clearSearchAction == createAction("[Search] clear search", NoProps)
pageLimitChangedAction(props) == createAction("[Search] Page Limit Changed", props)
pageNumberChangedAction(props) == createAction("[Search] Page Number Changed", props)
\* the sort creator carrying the type of the filter feature's sort creator
sortByChangedAction_asFilterSort(props) ==
    createAction("[Filter] Update Sort By Param", props)
sortByChangedAction(props) == createAction("[search] Sort By Changed", props)
fetchUnpaywallLinksAction(props) == createAction("[Search] Fetch unpaywall links", props)
updateIsSavedSearch(props) == createAction("[Search] Update Is Saved Search", props)
setSearchNotificationMsg(props) ==
    createAction("[search] Set Search Notification Message", props)
saveCurrentSearchTermAction(props) ==
    createAction("[Search] save current search term", props)
updateSortByParam(props) == createAction("[Filter] Update Sort By Param", props)
\* loadFiltersAction carrying the type of the filter load's result
loadFiltersAction_asResult(props) == createAction("[Filter] Load Filter Success", props)

loadFiltersAction(props) == createAction("[Filter] Load Filter", props)
filtersSuccessAction(props) == createAction("[Filter] Load Filter Success", props)
filterFailedAction == createAction("[Filter] Load Filter Failed", NoProps)
setDecodedJwtAction(props) == createAction("[User] Set Decoded Jwt", props)
loadUserSettingsSuccessAction(props) ==
    createAction("[User-Settings] save user settings", props)
resetUserSettingsSuccessAction ==
    createAction("[User-Settings] reset user settings success", NoProps)
doneChangeUserSettingsLanguageAction(props) ==
    createAction("[User-Settings] Done Change User Settings Language", props)
doneSaveHistoryToggleAction(props) ==
    createAction("[User-Settings] Done Update Save history toggle ", props)
doneUseHistoryToggleAction(props) ==
    createAction("[User-Settings] Done Update Use history toggle ", props)
doneAutoExtendMySessionToggleAction(props) ==
    createAction("[User-Settings] Done Update Auto Extend My Session toggle ", props)
setLoginFromStateAction(props) ==
    createAction("[User-Settings] set login from state", props)
changeRaSaveSearchDoneAction(props) ==
    createAction("[User-settings] dont update research-Assistant save search toggle",
                 props)
resetLogoutReasonAction == createAction("[User-Settings] reset logout reason", NoProps)
resetJwtAction(props) == createAction("[User] reset jwt", props)

\* creator.type: the type string each exported creator carries, by the name
\* it is exported under
TypeOf ==
    [searchAction |-> searchAction(NoProps).type,
     searchSuccessAction |-> searchSuccessAction(NoProps).type,
     searchFailedAction |-> searchFailedAction.type,
     clearSearchAction |-> clearSearchAction.type,
     pageLimitChangedAction |-> pageLimitChangedAction(NoProps).type,
     pageNumberChangedAction |-> pageNumberChangedAction(NoProps).type,
     sortByChangedAction |-> sortByChangedAction(NoProps).type,
     fetchUnpaywallLinksAction |-> fetchUnpaywallLinksAction(NoProps).type,
     updateIsSavedSearch |-> updateIsSavedSearch(NoProps).type,
     setSearchNotificationMsg |-> setSearchNotificationMsg(NoProps).type,
     saveCurrentSearchTermAction |-> saveCurrentSearchTermAction(NoProps).type,
     updateSortByParam |-> updateSortByParam(NoProps).type,
     loadFiltersAction |-> loadFiltersAction(NoProps).type,
     filtersSuccessAction |-> filtersSuccessAction(NoProps).type,
     filterFailedAction |-> filterFailedAction.type,
     setDecodedJwt |-> setDecodedJwtAction(NoProps).type,
     loadUserSettingsSuccessAction |-> loadUserSettingsSuccessAction(NoProps).type,
     resetUserSettingsSuccessAction |-> resetUserSettingsSuccessAction.type,
     doneChangeUserSettingsLanguageAction |->
         doneChangeUserSettingsLanguageAction(NoProps).type,
     doneSaveHistoryToggleAction |-> doneSaveHistoryToggleAction(NoProps).type,
     doneUseHistoryToggleAction |-> doneUseHistoryToggleAction(NoProps).type,
     doneAutoExtendMySessionToggleAction |->
         doneAutoExtendMySessionToggleAction(NoProps).type,
     setLoginFromStateAction |-> setLoginFromStateAction(NoProps).type,
     changeRaSaveSearchDoneAction |-> changeRaSaveSearchDoneAction(NoProps).type,
     resetLogoutReason |-> resetLogoutReasonAction.type,
     resetJwtAction |-> resetJwtAction(NoProps).type]

\* the README's Actions reference: the action type documented for each
\* creator (the host's handler identifier)
ActionsReference ==
    [searchAction |-> "[Search] Load search",
     searchSuccessAction |-> "[Search] Load search success",
     searchFailedAction |-> "[Search] Load search failed",
     clearSearchAction |-> "[Search] clear search",
     pageLimitChangedAction |-> "[Search] Page Limit Changed",
     pageNumberChangedAction |-> "[Search] Page Number Changed",
     sortByChangedAction |-> "[search] Sort By Changed",
     fetchUnpaywallLinksAction |-> "[Search] Fetch unpaywall links",
     updateIsSavedSearch |-> "[Search] Update Is Saved Search",
     setSearchNotificationMsg |-> "[search] Set Search Notification Message",
     saveCurrentSearchTermAction |-> "[Search] save current search term",
     loadFiltersAction |-> "[Filter] Load Filter",
     filtersSuccessAction |-> "[Filter] Load Filter Success",
     filterFailedAction |-> "[Filter] Load Filter Failed",
     updateSortByParam |-> "[Filter] Update Sort By Param",
     setDecodedJwt |-> "[User] Set Decoded Jwt",
     resetJwtAction |-> "[User] reset jwt",
     loadUserSettingsSuccessAction |-> "[User-Settings] save user settings",
     resetUserSettingsSuccessAction |->
         "[User-Settings] reset user settings success",
     doneChangeUserSettingsLanguageAction |->
         "[User-Settings] Done Change User Settings Language",
     doneSaveHistoryToggleAction |->
         "[User-Settings] Done Update Save history toggle",
     doneUseHistoryToggleAction |->
         "[User-Settings] Done Update Use history toggle",
     doneAutoExtendMySessionToggleAction |->
         "[User-Settings] Done Update Auto Extend My Session toggle",
     setLoginFromStateAction |-> "[User-Settings] set login from state",
     changeRaSaveSearchDoneAction |->
         "[User-settings] dont update research-Assistant save search toggle",
     resetLogoutReason |-> "[User-Settings] reset logout reason"]

Jwt1 == Obj([userName |-> Str("u1"), userGroup |-> Str("STAFF")])

\* one descriptor per exported creator: what a client can build by importing
\* the creators of shared-actions
CreatedActions ==
    { searchAction([searchParams |-> Params1, searchType |-> Undefined]),
      searchSuccessAction([searchResultsData |-> Obj([docs |-> Arr(<<DocA>>)])]),
      searchFailedAction,
      clearSearchAction,
      pageLimitChangedAction([limit |-> Num(25)]),
      pageNumberChangedAction([pageNumber |-> Num(2)]),
      sortByChangedAction([sort |-> Str("date")]),
      fetchUnpaywallLinksAction([recordsToUpdate |-> Arr(<<DocA>>)]),
      updateIsSavedSearch([isSavedSearch |-> Bool(TRUE)]),
      setSearchNotificationMsg([msg |-> Str("Saved search loaded")]),
      saveCurrentSearchTermAction([searchTerm |-> Str("angular")]),
      updateSortByParam([sort |-> Str("rank")]),
      loadFiltersAction([searchParams |-> Params1]),
      filtersSuccessAction([filters |-> Arr(<<Facet1>>)]),
      filterFailedAction,
      setDecodedJwtAction([decodedJwt |-> Jwt1]),
      loadUserSettingsSuccessAction(
          [userSettings |-> Obj([language |-> Str("en")]),
           isNewSession |-> Bool(FALSE)]),
      resetUserSettingsSuccessAction,
      doneChangeUserSettingsLanguageAction([value |-> Str("en")]),
      doneSaveHistoryToggleAction([value |-> Str("true")]),
      doneUseHistoryToggleAction([value |-> Str("true")]),
      doneAutoExtendMySessionToggleAction([value |-> Str("false")]),
      setLoginFromStateAction([value |-> Str("/search")]),
      changeRaSaveSearchDoneAction([value |-> Str("true")]),
      resetLogoutReasonAction,
      resetJwtAction([logoutReason |-> Str("user"), url |-> Undefined]) }

\* the discriminators of the exported creators: the gateway's closed set
ExportedTypes == { a.type : a \in CreatedActions }

\* objects a client can write by hand, without any creator
HandWrittenActions ==
    { [type |-> "[User] load jwt guest", props |-> NoProps],
      [type |-> "[Search] Load delivery success",
       props |-> [docsToUpdate |-> Arr(<<DocA>>)]],
      [type |-> "anything", props |-> [payload |-> Str("x")]] }

\* what the parameter "action: any" of dispatch admits
AnyAction == CreatedActions \cup HandWrittenActions

(***************************************************************************)
(* The classification of the host's action types (README, "Why not all     *)
(* host actions are exported").                                            *)
(***************************************************************************)
EffectResultTypes ==
    { "[Search] Load search success", "[Search] Load search failed",
      "[Filter] Load Filter Success", "[Filter] Load Filter Failed",
      "[full-display] load full display success",
      "[Search] Load delivery success" }

IdentityFlowTypes ==
    { "[User] load jwt guest", "[User] load logged user jwt", "[User] reset jwt" }

(***************************************************************************)
(* StateHelper: the write path.                                            *)
(***************************************************************************)
\* Store.dispatch: the store's mutation entry point; call is the index of the
\* client call during which the action arrived
StoreDispatch(log, action, call) == Append(log, [action |-> action, call |-> call])

\* StateHelper.dispatch forwarding the action twice
StateHelper_dispatch_twice(log, action, call) ==
    StoreDispatch(StoreDispatch(log, action, call), action, call)

\* StateHelper.dispatch waiting for the Search slice before it forwards
StateHelper_dispatch_whenSlicePresent(log, action, call) ==
    IF SliceAbsent(state, "Search") THEN log ELSE StoreDispatch(log, action, call)

\* StateHelper.dispatch(action)
StateHelper_dispatch(log, action, call) == StoreDispatch(log, action, call)

\* dispatchAll walking the array from its end
RECURSIVE DispatchEach_fromEnd(_, _, _)
DispatchEach_fromEnd(log, actions, call) ==
    IF actions = <<>> THEN log
    ELSE DispatchEach_fromEnd(StoreDispatch(log, actions[Len(actions)], call),
                              SubSeq(actions, 1, Len(actions) - 1), call)

\* actions.forEach(action => this.store.dispatch(action))
RECURSIVE DispatchEach(_, _, _)
DispatchEach(log, actions, call) ==
    IF actions = <<>> THEN log
    ELSE DispatchEach(StoreDispatch(log, Head(actions), call), Tail(actions), call)

\* a client write call: it is recorded, and the store's log becomes log
ClientCall(method, origin, args, log) ==
    /\ Len(calls) < MaxCalls
    /\ calls' = Append(calls, [method |-> method, origin |-> origin, args |-> args])
    /\ dispatched' = log
    /\ UNCHANGED <<state, emitted, rd, subs>>

ThisCall == Len(calls) + 1

\* the arrays dispatchAll is called with
ActionLists ==
    { <<>>,
      <<clearSearchAction>>,
      <<clearSearchAction, pageLimitChangedAction([limit |-> Num(25)])>>,
      <<pageLimitChangedAction([limit |-> Num(25)]), clearSearchAction>>,
      <<clearSearchAction, clearSearchAction>> }

\* StateHelper.dispatchAll(actions)
StateHelper_dispatchAll(actions) ==
    ClientCall("dispatchAll", "creator", <<actions>>,
               DispatchEach(dispatched, actions, ThisCall))

(***************************************************************************)
(* The escape hatch dispatch(action: any) of the three services.           *)
(***************************************************************************)
\* whether the client built the action with an exported creator or by hand
OriginOf(action) == IF action \in CreatedActions THEN "creator" ELSE "hand"

SearchStateService_dispatch(action) ==
    ClientCall("dispatch", OriginOf(action), <<action>>,
               StateHelper_dispatch(dispatched, action, ThisCall))

UserStateService_dispatch(action) ==
    ClientCall("dispatch", OriginOf(action), <<action>>,
               StateHelper_dispatch(dispatched, action, ThisCall))

FilterStateService_dispatch(action) ==
    ClientCall("dispatch", OriginOf(action), <<action>>,
               StateHelper_dispatch(dispatched, action, ThisCall))

(***************************************************************************)
(* The typed dispatch helpers of SearchStateService and UserStateService.  *)
(***************************************************************************)
search(searchParams, searchType) ==
    ClientCall("search", "helper", <<searchParams, searchType>>,
        StateHelper_dispatch(dispatched,
            searchAction([searchParams |-> searchParams, searchType |-> searchType]),
            ThisCall))

\* clearSearch writing its descriptor by hand, with the type of a search's
\* failure
clearSearch_adHoc ==
    ClientCall("clearSearch", "helper", <<>>,
        StateHelper_dispatch(dispatched,
            [type |-> "[Search] Load search failed",
             props |-> [payload |-> Str("clear")]],
            ThisCall))

clearSearch ==
    ClientCall("clearSearch", "helper", <<>>,
        StateHelper_dispatch(dispatched, clearSearchAction, ThisCall))

setPageLimit(limit) ==
    ClientCall("setPageLimit", "helper", <<limit>>,
        StateHelper_dispatch(dispatched, pageLimitChangedAction([limit |-> limit]),
                             ThisCall))

setPageNumber(pageNumber) ==
    ClientCall("setPageNumber", "helper", <<pageNumber>>,
        StateHelper_dispatch(dispatched,
            pageNumberChangedAction([pageNumber |-> pageNumber]), ThisCall))

setSortBy(sort) ==
    ClientCall("setSortBy", "helper", <<sort>>,
        StateHelper_dispatch(dispatched, sortByChangedAction([sort |-> sort]),
                             ThisCall))

setIsSavedSearch(isSavedSearch) ==
    ClientCall("setIsSavedSearch", "helper", <<isSavedSearch>>,
        StateHelper_dispatch(dispatched,
            updateIsSavedSearch([isSavedSearch |-> isSavedSearch]), ThisCall))

setSearchNotificationMessage(msg) ==
    ClientCall("setSearchNotificationMessage", "helper", <<msg>>,
        StateHelper_dispatch(dispatched, setSearchNotificationMsg([msg |-> msg]),
                             ThisCall))

setDecodedJwt(decodedJwt) ==
    ClientCall("setDecodedJwt", "helper", <<decodedJwt>>,
        StateHelper_dispatch(dispatched,
            setDecodedJwtAction([decodedJwt |-> decodedJwt]), ThisCall))

setLoginFromState(value) ==
    ClientCall("setLoginFromState", "helper", <<value>>,
        StateHelper_dispatch(dispatched, setLoginFromStateAction([value |-> value]),
                             ThisCall))

resetLogoutReason ==
    ClientCall("resetLogoutReason", "helper", <<>>,
        StateHelper_dispatch(dispatched, resetLogoutReasonAction, ThisCall))

setLanguage(value) ==
    ClientCall("setLanguage", "helper", <<value>>,
        StateHelper_dispatch(dispatched,
            doneChangeUserSettingsLanguageAction([value |-> value]), ThisCall))

setSaveHistory(value) ==
    ClientCall("setSaveHistory", "helper", <<value>>,
        StateHelper_dispatch(dispatched,
            doneSaveHistoryToggleAction([value |-> value]), ThisCall))

setUseHistory(value) ==
    ClientCall("setUseHistory", "helper", <<value>>,
        StateHelper_dispatch(dispatched,
            doneUseHistoryToggleAction([value |-> value]), ThisCall))

setAutoExtendMySession(value) ==
    ClientCall("setAutoExtendMySession", "helper", <<value>>,
        StateHelper_dispatch(dispatched,
            doneAutoExtendMySessionToggleAction([value |-> value]), ThisCall))

setAllowSavingRaSearchHistory(value) ==
    ClientCall("setAllowSavingRaSearchHistory", "helper", <<value>>,
        StateHelper_dispatch(dispatched,
            changeRaSaveSearchDoneAction([value |-> value]), ThisCall))

\* the typed dispatch helpers of FilterStateService, as the README documents
\* them (Typed dispatch helpers; API reference, FilterStateService)
loadFilters(params) ==
    ClientCall("loadFilters", "helper", <<params>>,
        StateHelper_dispatch(dispatched, loadFiltersAction([searchParams |-> params]),
                             ThisCall))

FilterStateService_updateSortByParam(sort) ==
    ClientCall("updateSortByParam", "helper", <<sort>>,
        StateHelper_dispatch(dispatched, updateSortByParam([sort |-> sort]),
                             ThisCall))

\* the arguments the helpers are called with
SearchParamsArgs == {Params1, Params2}
SearchTypeArgs == {Undefined, Str("blended")}
NumberArgs == {Num(2), Num(25)}
SortArgs == {Str("date"), Str("rank")}
BoolArgs == {Bool(TRUE), Bool(FALSE)}
MsgArgs == {Str(""), Str("Saved search loaded")}
ValueArgs == {Str("true"), Str("false")}
JwtArgs == {Jwt1}

(***************************************************************************)
(* StateHelper: the read path.  The reader rd is the one access object the *)
(* client currently holds.                                                 *)
(*   mode  "none" | "stream" | "snapshot" | "cell"                         *)
(*   phase "waiting"  no emission has reached it yet (stream, snapshot)    *)
(*         "initial"  a cell still reading as its initialDefault           *)
(*         "live"     a stream or cell holding the latest projected value  *)
(*         "resolved" a snapshot that took its one value                   *)
(*         "rejected" a snapshot whose selector threw                      *)
(*         "thrown"   the read call threw and left no reader               *)
(***************************************************************************)
NoReader == [mode |-> "none", op |-> "", id |-> "", phase |-> "none", value |-> Undefined]

\* selectOnce without take(1): the promise follows every emission
Deliver_withoutTake(r, s) ==
    CASE r.mode \in {"stream", "cell"} ->
             [r EXCEPT !.phase = "live", !.value = Selector(r.op, r.id, s)]
      [] r.mode = "snapshot" ->
             [r EXCEPT !.phase = "resolved", !.value = Selector(r.op, r.id, s)]
      [] OTHER -> r

\* a reader that keeps the first value it was handed
Deliver_keepFirst(r, s) ==
    IF r.phase \in {"live", "resolved", "rejected"} THEN r
    ELSE Deliver_withoutTake(r, s)

\* what one state emission s of the store does to reader r:
\* store.select(selector) maps every emission through the selector; take(1)
\* ends a snapshot after its first value, and toPromise() settles with it
\* (it rejects when the selector throws)
Deliver(r, s) ==
    CASE r.mode = "stream" ->
             [r EXCEPT !.phase = "live", !.value = Selector(r.op, r.id, s)]
      [] r.mode = "snapshot" /\ r.phase = "waiting" ->
             [r EXCEPT !.phase = IF Selector(r.op, r.id, s) = TypeError
                                THEN "rejected" ELSE "resolved",
                       !.value = Selector(r.op, r.id, s)]
      [] r.mode = "cell" ->
             [r EXCEPT !.phase = "live", !.value = Selector(r.op, r.id, s)]
      [] OTHER -> r

\* a reader that does not wait for the store: it is handed what the selector
\* makes of the state the store has not emitted yet
Attach_withoutWaiting(r) == Deliver(r, state)

\* a store that replays nothing: a new reader waits for the next state change
Attach_withoutReplay(r) == r

\* a new reader is attached to the store: the current state is replayed to it
\* at once when the store has one
Attach(r) == IF emitted THEN Deliver(r, state) ELSE r

\* a select*$ method, subscribed to: StateHelper.select$(selector)
StateHelper_select(op, id) ==
    /\ op \in StreamOps /\ id \in IdsOf(op)
    /\ rd' = Attach([mode |-> "stream", op |-> op, id |-> id,
                     phase |-> "waiting", value |-> Undefined])
    /\ UNCHANGED <<state, emitted, calls, dispatched, subs>>

\* the consumer releases its subscription
unsubscribe ==
    /\ rd.mode = "stream"
    /\ rd' = NoReader
    /\ UNCHANGED <<state, emitted, calls, dispatched, subs>>

\* a snapshot read that puts an action on the store
StateHelper_selectOnce_dispatching(op, id) ==
    /\ op \in SnapshotOps /\ id \in IdsOf(op)
    /\ rd' = Attach([mode |-> "snapshot", op |-> op, id |-> id,
                     phase |-> "waiting", value |-> Undefined])
    /\ dispatched' = StoreDispatch(dispatched, clearSearchAction, 0)
    /\ UNCHANGED <<state, emitted, calls, subs>>

\* a get* / isLoggedIn method: StateHelper.selectOnce(selector)
StateHelper_selectOnce(op, id) ==
    /\ op \in SnapshotOps /\ id \in IdsOf(op)
    /\ rd' = Attach([mode |-> "snapshot", op |-> op, id |-> id,
                     phase |-> "waiting", value |-> Undefined])
    /\ UNCHANGED <<state, emitted, calls, dispatched, subs>>

\* what a read call that threw leaves the client with: the diagnostic, and no
\* subscription, snapshot or cell
Thrown(diagnostic) ==
    [mode |-> "none", op |-> "", id |-> "", phase |-> "thrown",
     value |-> Str(diagnostic)]

\* toSignal subscribing to the store before it looks for the injection context
toSignal_checkedLate(op, inContext) ==
    LET cell == Attach([mode |-> "cell", op |-> op, id |-> "",
                        phase |-> "initial", value |-> InitialDefault(op)])
    IN  IF inContext THEN cell ELSE [cell EXCEPT !.phase = "thrown"]

\* toSignal(source, {initialValue}): it requires an injection context and
\* throws NG0203 outside one, before it subscribes
toSignal(op, inContext) ==
    IF inContext
    THEN Attach([mode |-> "cell", op |-> op, id |-> "",
                 phase |-> "initial", value |-> InitialDefault(op)])
    ELSE Thrown("NG0203")

\* a ...Signal() method: StateHelper.selectSignal(selector, initialValue),
\* called inside or outside an injection context
StateHelper_selectSignal(op, inContext) ==
    /\ op \in SignalOps
    /\ rd' = toSignal(op, inContext)
    /\ UNCHANGED <<state, emitted, calls, dispatched, subs>>

(***************************************************************************)
(* StateHelper.select$ with several subscribers.  subs holds the            *)
(* subscriptions taken on the stream of one projection, in the order they  *)
(* were taken.  Each is a pipeline of its own on the store's state stream: *)
(* store.select(selector) is map(selector) followed by                     *)
(* distinctUntilChanged(), which compares with ===.                        *)
(*   phase "waiting" | "live" | "errored" | "released"                     *)
(*   ran   how often the latest step evaluated the selector for it         *)
(*   got   how many values the latest step delivered to it                 *)
(***************************************************************************)
\* the selector builds its result anew on every evaluation
\* ([] and Object.values(...).filter(...)), so no two results are ===
ReturnsNewArray(op) == op = "selectAllDocs$"

\* prev === next, for the previous and the next result of the selector of
\* op: a result read out of the state is the same reference or primitive
\* when it is the same value
SameReference(op, prev, next) == ~ReturnsNewArray(op) /\ prev = next

NewSubscription(op, id) ==
    [op |-> op, id |-> id, phase |-> "waiting", value |-> Undefined,
     ran |-> 0, got |-> 0]

\* a stream that completes after the first value it delivers
Emit_completing(sub, s) ==
    IF sub.phase # "waiting"
    THEN [sub EXCEPT !.phase = "released", !.value = Undefined,
                     !.ran = 0, !.got = 0]
    ELSE [sub EXCEPT !.phase = "live", !.value = Selector(sub.op, sub.id, s),
                     !.ran = 1, !.got = 1]

\* what one state emission s of the store does to subscription sub
Emit(sub, s) ==
    IF sub.phase \notin {"waiting", "live"}
    THEN [sub EXCEPT !.ran = 0, !.got = 0]
    ELSE IF Selector(sub.op, sub.id, s) = TypeError
    THEN [sub EXCEPT !.phase = "errored", !.value = Undefined,
                     !.ran = 1, !.got = 0]
    ELSE IF sub.phase = "live"
            /\ SameReference(sub.op, sub.value, Selector(sub.op, sub.id, s))
    THEN [sub EXCEPT !.ran = 1, !.got = 0]
    ELSE [sub EXCEPT !.phase = "live", !.value = Selector(sub.op, sub.id, s),
                     !.ran = 1, !.got = 1]

\* the store's state stream hands s to every subscription
EmitAll(ss, s) == [i \in DOMAIN ss |-> Emit(ss[i], s)]

\* a step of the client in which the store emits nothing
Quiet(ss) == [i \in DOMAIN ss |-> [ss[i] EXCEPT !.ran = 0, !.got = 0]]

\* select*$().subscribe(...): one more subscriber on the projection's stream;
\* the store replays its current state to it when it has one
subscribe(op, id) ==
    /\ Len(subs) < MaxSubs
    /\ op \in StreamOps /\ id \in IdsOf(op)
    /\ subs # <<>> => (op = subs[1].op /\ id = subs[1].id)
    /\ subs' = Append(Quiet(subs),
                      IF emitted THEN Emit(NewSubscription(op, id), state)
                      ELSE NewSubscription(op, id))
    /\ UNCHANGED <<state, emitted, rd, calls, dispatched>>

\* subscription.unsubscribe() on the i-th subscription
Subscription_unsubscribe(i) ==
    /\ i \in DOMAIN subs
    /\ subs[i].phase \in {"waiting", "live"}
    /\ subs' = [Quiet(subs) EXCEPT ![i] = [@ EXCEPT !.phase = "released",
                                                    !.value = Undefined]]
    /\ UNCHANGED <<state, emitted, rd, calls, dispatched>>

\* actions whose type no reducer or effect of the host handles
UnhandledActions == { a \in HandWrittenActions : a.type = "anything" }

\* dispatch(action) of an action no host handler recognises: the reducers
\* return the state they were given, and the store hands that state to its
\* subscribers again
dispatchUnhandled(action) ==
    /\ action \in UnhandledActions
    /\ Len(calls) < MaxCalls
    /\ calls' = Append(calls, [method |-> "dispatch", origin |-> OriginOf(action),
                               args |-> <<action>>])
    /\ dispatched' = StateHelper_dispatch(dispatched, action, ThisCall)
    /\ subs' = IF emitted THEN EmitAll(subs, state) ELSE Quiet(subs)
    /\ UNCHANGED <<state, emitted, rd>>

(***************************************************************************)
(* The host's store.                                                       *)
(***************************************************************************)
\* the store produces its first state
HostInit ==
    /\ ~emitted
    /\ emitted' = TRUE
    /\ rd' = Deliver(rd, state)
    /\ subs' = EmitAll(subs, state)
    /\ UNCHANGED <<state, calls, dispatched>>

\* a host reducer replaces one slice; the new state is emitted
HostSetSlice(k, slice) ==
    /\ emitted
    /\ slice \in SliceValues(k) \cup StreamSlices(k)
    /\ slice # Get(state, k)
    /\ state' = Obj([state.v EXCEPT ![k] = slice])
    /\ rd' = Deliver(rd, state')
    /\ subs' = EmitAll(subs, state')
    /\ UNCHANGED <<emitted, calls, dispatched>>

(***************************************************************************)
(* Specifications.                                                         *)
(***************************************************************************)
Init ==
    /\ state = EmptyState
    /\ emitted = FALSE
    /\ rd = NoReader
    /\ calls = <<>>
    /\ dispatched = <<>>
    /\ subs = <<>>

\* the client reads while the host changes the state
NextRead ==
    \/ HostInit
    \/ \E k \in SliceKeys : \E slice \in SliceValues(k) : HostSetSlice(k, slice)
    \/ \E op \in StreamOps : \E id \in IdsOf(op) : StateHelper_select(op, id)
    \/ unsubscribe
    \/ \E op \in SnapshotOps : \E id \in IdsOf(op) : StateHelper_selectOnce(op, id)
    \/ \E op \in SignalOps : \E inContext \in BOOLEAN :
           StateHelper_selectSignal(op, inContext)

SpecRead == Init /\ [][NextRead]_vars

\* the client writes
NextWrite ==
    \/ \E action \in AnyAction : SearchStateService_dispatch(action)
    \/ \E action \in AnyAction : UserStateService_dispatch(action)
    \/ \E action \in AnyAction : FilterStateService_dispatch(action)
    \/ \E actions \in ActionLists : StateHelper_dispatchAll(actions)
    \/ \E searchParams \in SearchParamsArgs : \E searchType \in SearchTypeArgs :
           search(searchParams, searchType)
    \/ clearSearch
    \/ \E limit \in NumberArgs : setPageLimit(limit)
    \/ \E pageNumber \in NumberArgs : setPageNumber(pageNumber)
    \/ \E sort \in SortArgs : setSortBy(sort)
    \/ \E isSavedSearch \in BoolArgs : setIsSavedSearch(isSavedSearch)
    \/ \E msg \in MsgArgs : setSearchNotificationMessage(msg)
    \/ \E decodedJwt \in JwtArgs : setDecodedJwt(decodedJwt)
    \/ \E value \in ValueArgs : setLoginFromState(value)
    \/ resetLogoutReason
    \/ \E value \in ValueArgs : setLanguage(value)
    \/ \E value \in ValueArgs : setSaveHistory(value)
    \/ \E value \in ValueArgs : setUseHistory(value)
    \/ \E value \in ValueArgs : setAutoExtendMySession(value)
    \/ \E value \in ValueArgs : setAllowSavingRaSearchHistory(value)
    \/ \E params \in SearchParamsArgs : loadFilters(params)
    \/ \E sort \in SortArgs : FilterStateService_updateSortByParam(sort)

SpecWrite == Init /\ [][NextWrite]_vars

\* subscribers watch the stream of one projection while the host changes the
\* state and the client dispatches actions the host does not handle
NextStream ==
    \/ HostInit
    \/ \E k \in SliceKeys : \E slice \in StreamSlices(k) : HostSetSlice(k, slice)
    \/ \E op \in StreamOps : \E id \in IdsOf(op) : subscribe(op, id)
    \/ \E i \in 1..MaxSubs : Subscription_unsubscribe(i)
    \/ \E action \in UnhandledActions : dispatchUnhandled(action)

SpecStream == Init /\ [][NextStream]_vars

(***************************************************************************)
(* Properties of the write path (SpecWrite).                               *)
(***************************************************************************)
\* the client call during which the j-th action reached the store
CallOf(j) == calls[dispatched[j].call]

\* C1: every action that reached Store.dispatch carries a discriminator of the
\* gateway's closed set and was built by one of its creators; a hand-written
\* type/payload pair is never forwarded.
C1_OnlyGatewayDescriptorsForwarded ==
    \A j \in DOMAIN dispatched :
        /\ dispatched[j].action.type \in ExportedTypes
        /\ CallOf(j).origin # "hand"

\* C2: no value a client builds with an exported creator, and dispatches,
\* carries an EFFECT-RESULT discriminator.
C2_NoEffectResultFromCreators ==
    \A j \in DOMAIN dispatched :
        CallOf(j).origin = "creator" =>
            dispatched[j].action.type \notin EffectResultTypes

\* C3: no value a client builds with an exported creator, and dispatches,
\* carries an IDENTITY-FLOW-TRIGGER discriminator.
C3_NoIdentityFlowFromCreators ==
    \A j \in DOMAIN dispatched :
        CallOf(j).origin = "creator" =>
            dispatched[j].action.type \notin IdentityFlowTypes

\* the descriptor a typed helper call is to forward: the discriminator of its
\* action creator, and the caller's arguments as the payload
ExpectedAction(c) ==
    CASE c.method = "search" ->
             [type |-> "[Search] Load search",
              props |-> [searchParams |-> c.args[1], searchType |-> c.args[2]]]
      [] c.method = "clearSearch" ->
             [type |-> "[Search] clear search", props |-> NoProps]
      [] c.method = "setPageLimit" ->
             [type |-> "[Search] Page Limit Changed", props |-> [limit |-> c.args[1]]]
      [] c.method = "setPageNumber" ->
             [type |-> "[Search] Page Number Changed",
              props |-> [pageNumber |-> c.args[1]]]
      [] c.method = "setSortBy" ->
             [type |-> "[search] Sort By Changed", props |-> [sort |-> c.args[1]]]
      [] c.method = "setIsSavedSearch" ->
             [type |-> "[Search] Update Is Saved Search",
              props |-> [isSavedSearch |-> c.args[1]]]
      [] c.method = "setSearchNotificationMessage" ->
             [type |-> "[search] Set Search Notification Message",
              props |-> [msg |-> c.args[1]]]
      [] c.method = "setDecodedJwt" ->
             [type |-> "[User] Set Decoded Jwt", props |-> [decodedJwt |-> c.args[1]]]
      [] c.method = "setLoginFromState" ->
             [type |-> "[User-Settings] set login from state",
              props |-> [value |-> c.args[1]]]
      [] c.method = "resetLogoutReason" ->
             [type |-> "[User-Settings] reset logout reason", props |-> NoProps]
      [] c.method = "setLanguage" ->
             [type |-> "[User-Settings] Done Change User Settings Language",
              props |-> [value |-> c.args[1]]]
      [] c.method = "setSaveHistory" ->
             [type |-> "[User-Settings] Done Update Save history toggle ",
              props |-> [value |-> c.args[1]]]
      [] c.method = "setUseHistory" ->
             [type |-> "[User-Settings] Done Update Use history toggle ",
              props |-> [value |-> c.args[1]]]
      [] c.method = "setAutoExtendMySession" ->
             [type |-> "[User-Settings] Done Update Auto Extend My Session toggle ",
              props |-> [value |-> c.args[1]]]
      [] c.method = "setAllowSavingRaSearchHistory" ->
             [type |-> "[User-settings] dont update research-Assistant save search toggle",
              props |-> [value |-> c.args[1]]]
      [] c.method = "loadFilters" ->
             [type |-> "[Filter] Load Filter", props |-> [searchParams |-> c.args[1]]]
      [] c.method = "updateSortByParam" ->
             [type |-> "[Filter] Update Sort By Param",
              props |-> [sort |-> c.args[1]]]

\* C6: one call of a typed dispatch helper results in exactly one dispatch on
\* the store, carrying the discriminator of the helper's action creator and a
\* payload equal to the caller's arguments.
C6_HelperDispatchesExactlyOnce ==
    \A i \in DOMAIN calls :
        calls[i].origin = "helper" =>
            LET arrived == { j \in DOMAIN dispatched : dispatched[j].call = i }
            IN  /\ Cardinality(arrived) = 1
                /\ \A j \in arrived : dispatched[j].action = ExpectedAction(calls[i])

\* a search with a search type, then a settings write, both forwarded
C6_Witness ==
    /\ Len(calls) = 2
    /\ calls[1].method = "search" /\ calls[1].args[2] = Str("blended")
    /\ calls[2].method = "setAllowSavingRaSearchHistory"
    /\ Len(dispatched) = 2
    /\ dispatched[1].action.props.searchType = Str("blended")
    /\ dispatched[2].action.props.value = Str("false")

(***************************************************************************)
(* Properties of the read path (SpecRead).                                 *)
(***************************************************************************)
\* the stream form of the projection a snapshot or a cell method reads
StreamFormOf(op) ==
    CASE op \in {"getAllDocs", "allDocsSignal"} -> "selectAllDocs$"
      [] op = "getDocById" -> "selectDocById$"
      [] op \in {"getSearchParams", "searchParamsSignal"} -> "selectSearchParams$"
      [] op = "searchMetaDataSignal" -> "selectSearchMetaData$"
      [] op = "searchStatusSignal" -> "selectSearchStatus$"
      [] op = "totalResultsSignal" -> "selectTotalResults$"
      [] op = "pageSizeSignal" -> "selectPageSize$"
      [] op = "isLoadingSignal" -> "selectIsLoading$"
      [] op = "userStateSignal" -> "selectUserState$"
      [] op \in {"getJwt", "jwtSignal"} -> "selectJwt$"
      [] op = "decodedJwtSignal" -> "selectDecodedJwt$"
      [] op \in {"isLoggedIn", "isLoggedInSignal"} -> "selectIsLoggedIn$"
      [] op \in {"getUserSettings", "userSettingsSignal"} -> "selectUserSettings$"
      [] op = "userNameSignal" -> "selectUserName$"
      [] op = "userGroupSignal" -> "selectUserGroup$"
      [] op = "filterStateSignal" -> "selectFilterState$"
      [] op \in {"getIncludedFilters", "includedFiltersSignal"} ->
             "selectIncludedFilters$"
      [] op \in {"getExcludedFilters", "excludedFiltersSignal"} ->
             "selectExcludedFilters$"
      [] op \in {"getMultiSelectedFilters", "multiSelectedFiltersSignal"} ->
             "selectMultiSelectedFilters$"
      [] op = "resourceTypeFilterSignal" -> "selectResourceTypeFilter$"
      [] op = "isFiltersOpenSignal" -> "selectIsFiltersOpen$"
      [] op = "isRememberAllSignal" -> "selectIsRememberAll$"
      [] OTHER -> op

\* the value the stream form of op holds for the store state s
StreamHolds(op, id, s) == Selector(StreamFormOf(op), id, s)

\* in this step the reader takes a value projected from the new state: a
\* stream or cell follows the store, a snapshot resolves
Delivers ==
    /\ emitted'
    /\ rd'.phase \in {"live", "resolved"}
    /\ ~(rd.mode = "snapshot" /\ rd.phase = "resolved" /\ rd' = rd)

\* C4: a snapshot resolves to the value the stream form of the same
\* projection holds at the moment of resolution, in every store state.
C4_SnapshotEqualsStream ==
    [][(Delivers /\ rd'.mode = "snapshot")
          => rd'.value = StreamHolds(rd'.op, rd'.id, state')]_vars

\* the slice a method reads, or a node on its path, is absent from s
PathAbsent(op, s) ==
    \/ SliceAbsent(s, SliceOf(op))
    \/ /\ op \in {"selectAllDocs$", "getAllDocs", "allDocsSignal",
                  "selectDocById$", "getDocById"}
       /\ IsNullish(s.v.Search.v.entities)
    \/ /\ op \in {"selectTotalResults$", "totalResultsSignal"}
       /\ \/ IsNullish(s.v.Search.v.searchResultsMetaData)
          \/ IsNullish(s.v.Search.v.searchResultsMetaData.v.info)
    \/ /\ op \in {"selectUserName$", "userNameSignal", "selectUserGroup$",
                  "userGroupSignal"}
       /\ IsNullish(s.v.user.v.decodedJwt)

\* the default documented for a read method: the empty sequence for
\* collections, false for booleans, 'pending' for the status, the literal
\* defaults 0 and 'GUEST', and null for optional records and values
DocumentedDefault(op) ==
    CASE op \in {"selectAllDocs$", "getAllDocs", "allDocsSignal"} -> Arr(<<>>)
      [] op \in {"selectIsLoading$", "isLoadingSignal", "selectIsLoggedIn$",
                 "isLoggedIn", "isLoggedInSignal", "selectIsFiltersOpen$",
                 "isFiltersOpenSignal", "selectIsRememberAll$",
                 "isRememberAllSignal"} -> Bool(FALSE)
      [] op \in {"selectSearchStatus$", "searchStatusSignal"} -> Str("pending")
      [] op \in {"selectTotalResults$", "totalResultsSignal"} -> Num(0)
      [] op \in {"selectUserGroup$", "userGroupSignal"} -> Str("GUEST")
      [] OTHER -> Null

\* C5: a read whose slice, or a node on its path, is absent from the store
\* state does not throw and yields its documented default, never undefined.
C5_DefaultValueLaw ==
    [][(Delivers /\ PathAbsent(rd'.op, state'))
          => /\ rd'.value # TypeError
             /\ rd'.value # Undefined
             /\ rd'.value = DocumentedDefault(rd'.op)]_vars

\* C7: with the Search slice absent, getAllDocs() resolves to the empty
\* sequence, the cell of allDocsSignal() reads as the empty sequence from its
\* creation on, and the cell of isLoadingSignal() reads false from its
\* creation on.
C7_Scenario1 ==
    [][SliceAbsent(state', "Search")
          => /\ (Delivers /\ rd'.op = "getAllDocs") => rd'.value = Arr(<<>>)
             /\ rd'.op = "allDocsSignal" => rd'.value = Arr(<<>>)
             /\ rd'.op = "isLoadingSignal" => rd'.value = Bool(FALSE)]_vars

\* getAllDocs() resolved to the empty sequence while the store has emitted
\* a state without the Search slice
C7_Witness ==
    /\ emitted /\ SliceAbsent(state, "Search")
    /\ ~SliceAbsent(state, "user")
    /\ rd.mode = "snapshot" /\ rd.op = "getAllDocs" /\ rd.phase = "resolved"
    /\ rd.value = Arr(<<>>)

\* user.decodedJwt.userGroup cannot be reached in s
UserGroupAbsent(s) ==
    \/ s.v.user = Undefined
    \/ s.v.user.v.decodedJwt = Undefined
    \/ "userGroup" \notin DOMAIN s.v.user.v.decodedJwt.v
    \/ s.v.user.v.decodedJwt.v.userGroup = Undefined

\* C8: selectUserGroup$() and userGroupSignal() yield 'GUEST', never null or
\* undefined, when user, decodedJwt or userGroup is absent, and the user
\* group itself when it is present and not empty.
C8_UserGroupDefaultsToGuest ==
    (rd.op \in {"selectUserGroup$", "userGroupSignal"}
       /\ rd.phase \in {"initial", "live"})
    => /\ rd.value \notin {Null, Undefined}
       /\ (rd.phase = "initial" \/ UserGroupAbsent(state))
             => rd.value = Str("GUEST")
       /\ (rd.phase = "live" /\ ~UserGroupAbsent(state)
             /\ state.v.user.v.decodedJwt.v.userGroup # Str(""))
             => rd.value = state.v.user.v.decodedJwt.v.userGroup

\* a subscriber of selectUserGroup$() holds 'GUEST' while the user slice is
\* there and its decodedJwt is not
C8_Witness ==
    /\ emitted /\ ~SliceAbsent(state, "user")
    /\ state.v.user.v.decodedJwt = Undefined
    /\ rd.mode = "stream" /\ rd.op = "selectUserGroup$" /\ rd.phase = "live"
    /\ rd.value = Str("GUEST")

\* C9: a cell reads as the initialDefault it was constructed with until the
\* first emission arrives, and from then on as the value the stream form of
\* the same projection holds for the current store state.
C9_CellAgreesWithStream ==
    rd.mode = "cell"
    => /\ rd.phase \in {"initial", "live"}
       /\ rd.phase = "initial"
             => (~emitted /\ rd.value = InitialDefault(rd.op))
       /\ rd.phase = "live"
             => (emitted /\ rd.value = StreamHolds(rd.op, rd.id, state))

\* the cell of isLoggedInSignal() follows the store to a logged-in user
C9_Witness ==
    /\ emitted /\ ~SliceAbsent(state, "user")
    /\ state.v.user.v.isLoggedIn = Bool(TRUE)
    /\ rd.mode = "cell" /\ rd.op = "isLoggedInSignal" /\ rd.phase = "live"
    /\ rd.value = Bool(TRUE)

\* the host's store emits in this step: its first state, or a changed one
StoreEmits == emitted' /\ (~emitted \/ state' # state)

\* C12: a snapshot resolves exactly once, with the projection of the first
\* emission at or after the call; a state change after the resolution neither
\* changes the resolved value nor resolves it again.
C12_SnapshotResolvesOnce ==
    [][rd'.mode = "snapshot" =>
          /\ (StoreEmits /\ rd.mode = "snapshot" /\ rd.phase = "waiting")
                => (rd'.phase = "resolved"
                    /\ rd'.value = Selector(rd.op, rd.id, state'))
          /\ (StoreEmits /\ rd.mode = "snapshot" /\ rd.phase = "resolved")
                => rd' = rd
          /\ (~StoreEmits /\ rd' # rd)
                => IF emitted
                   THEN rd'.phase = "resolved"
                        /\ rd'.value = Selector(rd'.op, rd'.id, state)
                   ELSE rd'.phase = "waiting"]_vars

\* getSearchParams() keeps the parameters it resolved with after the store
\* moved on to other ones
C12_Witness ==
    /\ rd.mode = "snapshot" /\ rd.op = "getSearchParams" /\ rd.phase = "resolved"
    /\ rd.value = Params1
    /\ getSearchParams(state) # Params1

\* C13: while the store has emitted no state a requested snapshot stays
\* pending: it is not resolved (with a default, undefined or anything else)
\* and not rejected; once a state is available the snapshot is resolved, at
\* the call itself when the state was already there.
C13_UnresolvedSnapshotStaysPending ==
    rd.mode = "snapshot"
    => /\ rd.phase # "rejected"
       /\ ~emitted => (rd.phase = "waiting" /\ rd.value = Undefined)
       /\ emitted => rd.phase = "resolved"

\* getJwt() was called before the store emitted anything and is pending
C13_Witness ==
    /\ ~emitted
    /\ rd.mode = "snapshot" /\ rd.op = "getJwt" /\ rd.phase = "waiting"

\* C14: a ...Signal() call outside the injection context fails at once with
\* the diagnostic NG0203, leaves no cell and no subscription behind and leaves
\* the store as it was; a call inside the context yields a cell and does not
\* fail.
C14_ContextViolation ==
    [][/\ (rd'.phase = "thrown" /\ rd' # rd)
            => /\ rd'.mode = "none"
               /\ rd'.value = Str("NG0203")
               /\ UNCHANGED <<state, emitted, dispatched>>
       /\ (rd'.mode = "cell" /\ rd' # rd)
            => /\ rd'.phase \in {"initial", "live"}
               /\ rd'.value # Str("NG0203")]_vars

\* a ...Signal() call threw NG0203 while the store holds a Search slice
C14_Witness ==
    /\ emitted /\ ~SliceAbsent(state, "Search")
    /\ rd.mode = "none" /\ rd.phase = "thrown" /\ rd.value = Str("NG0203")

\* C15: every descriptor built by an exported creator (by the client or by a
\* typed helper) that reaches the store carries, character for character,
\* the action type the README's Actions reference documents for that creator.
C15_ByteExactDiscriminators ==
    /\ DOMAIN TypeOf = DOMAIN ActionsReference
    /\ \A j \in DOMAIN dispatched :
           CallOf(j).origin \in {"creator", "helper"} =>
               \E creator \in DOMAIN TypeOf :
                   /\ dispatched[j].action.type = TypeOf[creator]
                   /\ TypeOf[creator] = ActionsReference[creator]

\* the actions that reached the store during the i-th client call
ArrivedIn(i) == { j \in DOMAIN dispatched : dispatched[j].call = i }

BuiltByCreator(action) ==
    \E a \in CreatedActions :
        /\ a.type = action.type
        /\ DOMAIN a.props = DOMAIN action.props

\* C18: what a typed dispatch helper forwards is one descriptor, built by an
\* exported creator of shared-actions (never a type/payload pair written by
\* hand), whose type is neither an EFFECT-RESULT nor an
\* IDENTITY-FLOW-TRIGGER, that is, a COMMAND or a PURE-STATE-WRITE.
C18_HelpersForwardCreatorDescriptors ==
    \A i \in DOMAIN calls :
        calls[i].origin = "helper" =>
            /\ Cardinality(ArrivedIn(i)) = 1
            /\ \A j \in ArrivedIn(i) :
                   /\ BuiltByCreator(dispatched[j].action)
                   /\ dispatched[j].action.type \notin EffectResultTypes
                   /\ dispatched[j].action.type \notin IdentityFlowTypes

\* clearSearch(), then setDecodedJwt(jwt): the helper next to the excluded
\* '[User] reset jwt' forwarded '[User] Set Decoded Jwt'
C18_Witness ==
    /\ Len(calls) = 2 /\ Len(dispatched) = 2
    /\ calls[1].origin = "helper" /\ calls[1].method = "clearSearch"
    /\ calls[2].origin = "helper" /\ calls[2].method = "setDecodedJwt"
    /\ dispatched[1].action = clearSearchAction
    /\ dispatched[2].action.type = "[User] Set Decoded Jwt"

\* the status selectSearchStatus$() yields for s is 'loading'
StatusIsLoading(s) == Bool(selectSearchStatus(s) = Str("loading"))

\* C19: in every store state selectIsLoading$() and isLoadingSignal() yield
\* true exactly when selectSearchStatus$() yields 'loading' and false
\* otherwise, false in particular when the Search slice or its status is
\* absent; a subscriber and a cell hold that value.
C19_IsLoadingIsFunctionOfStatus ==
    /\ selectIsLoading(state) = StatusIsLoading(state)
    /\ isLoadingSignal(state) = StatusIsLoading(state)
    /\ (SliceAbsent(state, "Search") \/ state.v.Search.v.status = Undefined)
          => selectIsLoading(state) = Bool(FALSE)
    /\ (rd.op \in {"selectIsLoading$", "isLoadingSignal"}
          /\ rd.phase \in {"initial", "live"})
          => rd.value = StatusIsLoading(state)

\* a subscriber of selectIsLoading$() holds true while the status is 'loading'
C19_Witness ==
    /\ emitted /\ ~SliceAbsent(state, "Search")
    /\ state.v.Search.v.status = Str("loading")
    /\ rd.mode = "stream" /\ rd.op = "selectIsLoading$" /\ rd.phase = "live"
    /\ rd.value = Bool(TRUE)

\* C20: a new subscriber of a select*$ stream receives at subscription, before
\* any later state change, the value the projection yields for the store's
\* current state, whatever number of state changes came before.
C20_ReplayLatest ==
    [][(rd'.mode = "stream" /\ rd' # rd /\ emitted /\ UNCHANGED <<state, emitted>>)
          => /\ rd'.phase = "live"
             /\ rd'.value = Selector(rd'.op, rd'.id, state)]_vars

\* after the host set the user slice and then the Search slice, a subscriber
\* of selectSearchParams$() holds the parameters of the current state
C20_Witness ==
    /\ emitted /\ ~SliceAbsent(state, "user") /\ ~SliceAbsent(state, "Search")
    /\ rd.mode = "stream" /\ rd.op = "selectSearchParams$" /\ rd.phase = "live"
    /\ rd.value = Params1 /\ selectSearchParams(state) = Params1

(***************************************************************************)
(* Properties of subscriptions (SpecStream).                               *)
(***************************************************************************)
\* the subscriptions that are live before and after the step
StayLive == { i \in DOMAIN subs : subs[i].phase = "live" /\ subs'[i].phase = "live" }

\* the value the projection of subscription i yields for the store state s
Projected(i, s) == Selector(subs[i].op, subs[i].id, s)

Open(sub) == sub.phase \in {"waiting", "live"}

\* C22: a stream does not complete or fail on its own: a subscription ends
\* only in the step in which its consumer unsubscribes, until then every
\* state the store emits reaches it, whatever the host and the client do;
\* once released it receives nothing more, while the other subscriptions of
\* the stream go on receiving.
C22_StreamEndsOnlyByUnsubscribe ==
    [][\A i \in DOMAIN subs :
           /\ subs'[i].phase # "errored"
           /\ (Open(subs[i]) /\ ~Open(subs'[i]))
                 => /\ subs'[i].phase = "released"
                    /\ UNCHANGED <<state, emitted, dispatched>>
                    /\ \A j \in DOMAIN subs \ {i} : subs'[j].phase = subs[j].phase
           /\ (Open(subs[i]) /\ StoreEmits)
                 => /\ subs'[i].phase = "live"
                    /\ subs'[i].value = Projected(i, state')
           /\ subs[i].phase = "released"
                 => /\ subs'[i].phase = "released"
                    /\ subs'[i].got = 0
                    /\ subs'[i].value = subs[i].value]_vars

\* after a dispatch, the first subscriber of selectSearchStatus$() has
\* unsubscribed and the second has just been handed 'success'
C22_Witness ==
    /\ Len(subs) = 2
    /\ subs[1].op = "selectSearchStatus$" /\ subs[1].phase = "released"
    /\ subs[2].phase = "live" /\ subs[2].got = 1
    /\ subs[2].value = Str("success")
    /\ Len(dispatched) > 0

\* in this step the store was handed an action no host handler recognises
UnhandledArrives ==
    /\ Len(dispatched') = Len(dispatched) + 1
    /\ dispatched'[Len(dispatched')].action \in UnhandledActions

\* C24: when a dispatched action carries a type no host handler recognises,
\* the store state stays as it was, no subscriber of any stream is handed a
\* value, and the call is over without an error or any other signal.
C24_SilentDiscriminatorMismatch ==
    [][UnhandledArrives
          => /\ UNCHANGED <<state, emitted>>
             /\ \A i \in DOMAIN subs' : subs'[i].got = 0
             /\ Len(calls') = Len(calls) + 1]_vars

\* the number of times the latest step evaluated the projection function
Evaluations == Cardinality({ i \in DOMAIN subs : subs[i].ran = 1 })

\* C26: with several subscribers on the stream of one projection, a state
\* change of the store evaluates the projection function once, not once per
\* subscriber, and every subscriber receives the same value for it.
C26_SharedUpstreamEvaluation ==
    /\ Evaluations <= 1
    /\ \A i, j \in DOMAIN subs :
           (subs[i].got = 1 /\ subs[j].got = 1) => subs[i].value = subs[j].value

(***************************************************************************)
(* Further properties of the write path (SpecWrite).                       *)
(***************************************************************************)
\* the actions that reached the store during the i-th client call, in the
\* order of their arrival
ActionsOf(i) ==
    LET arrivals == SelectSeq(dispatched, LAMBDA d : d.call = i)
    IN  [j \in 1..Len(arrivals) |-> arrivals[j].action]

\* the actions the i-th client call is to put on the store, in order
Sent(c) ==
    IF c.method = "dispatchAll" THEN c.args[1]
    ELSE IF c.origin = "helper" THEN <<ExpectedAction(c)>>
    ELSE <<c.args[1]>>

\* C23: a command issued while the slices are absent from the store state is
\* accepted: the call is over in the step it is made in (nothing is thrown,
\* nothing is left pending) and its descriptor has reached the store exactly
\* once.
C23_CommandAcceptedWithoutSlice ==
    \A i \in DOMAIN calls :
        ((\A k \in SliceKeys : SliceAbsent(state, k))
            /\ calls[i].method # "dispatchAll")
        => /\ Cardinality(ArrivedIn(i)) = 1
           /\ ActionsOf(i) = Sent(calls[i])

\* search(params) and setPageLimit(25) were called, and forwarded, while the
\* store state holds no Search slice
C23_Witness ==
    /\ SliceAbsent(state, "Search")
    /\ Len(calls) = 2 /\ Len(dispatched) = 2
    /\ calls[1].method = "search" /\ calls[2].method = "setPageLimit"
    /\ dispatched[1].action.type = "[Search] Load search"
    /\ dispatched[2].action.props.limit = Num(25)

\* C28: dispatchAll(actions) forwards every element of the array once and in
\* array order, nothing for an empty array; and whatever sequence of
\* dispatch, dispatchAll and typed-helper calls is made, the store receives
\* the actions call by call in call order, none moved, merged or dropped.
C28_DispatchOrderPreserved ==
    /\ \A i \in DOMAIN calls : ActionsOf(i) = Sent(calls[i])
    /\ \A j \in DOMAIN dispatched : dispatched[j].call \in DOMAIN calls
    /\ \A j, k \in DOMAIN dispatched :
           j < k => dispatched[j].call <= dispatched[k].call

\* dispatchAll([pageLimitChanged, clearSearch]) and then setSortBy('date')
\* reached the store as three actions in that order
C28_Witness ==
    /\ Len(calls) = 2 /\ Len(dispatched) = 3
    /\ calls[1].method = "dispatchAll" /\ calls[2].method = "setSortBy"
    /\ dispatched[1].action.type = "[Search] Page Limit Changed"
    /\ dispatched[2].action = clearSearchAction
    /\ dispatched[3].action.props = [sort |-> Str("date")]

(***************************************************************************)
(* Further properties of the read path (SpecRead).                         *)
(***************************************************************************)
\* the client makes a read call in this step: it holds another access object
\* than before, or the call threw
ReadCall ==
    /\ rd' # rd
    /\ \/ rd'.mode # rd.mode \/ rd'.op # rd.op \/ rd'.id # rd.id
       \/ rd'.phase \in {"thrown", "waiting", "initial"}
       \/ (rd.phase = "resolved" /\ rd'.phase = "resolved")

\* C25: a read (select*$, get*, ...Signal, select$, selectOnce, selectSignal)
\* puts nothing on the store and leaves the store state as it was; an action
\* reaches the store only in a call of dispatch, dispatchAll or a typed
\* helper.
C25_ReadsAreSideEffectFree ==
    [][/\ ReadCall => UNCHANGED <<state, emitted, dispatched, calls>>
       /\ dispatched' # dispatched => Len(calls') = Len(calls) + 1]_vars

\* getUserSettings() resolved from a store state holding all three slices,
\* and the store has received no action
C25_Witness ==
    /\ emitted /\ \A k \in SliceKeys : ~SliceAbsent(state, k)
    /\ rd.mode = "snapshot" /\ rd.op = "getUserSettings" /\ rd.phase = "resolved"
    /\ rd.value = Selector("getUserSettings", "", state)
    /\ rd.value # Undefined
    /\ dispatched = <<>> /\ calls = <<>>

\* C27: last value wins: a live stream subscription or cell holds the
\* projection of the state the store emitted last, whatever number of state
\* changes went before; no earlier value is kept or delivered later.
C27_LastValueWins ==
    (emitted /\ rd.mode \in {"stream", "cell"})
        => /\ rd.phase = "live"
           /\ rd.value = StreamHolds(rd.op, rd.id, state)

\* totalResultsSignal() reads the total of the current Search slice after the
\* store went through states with other slices and totals
C27_Witness ==
    /\ emitted /\ \A k \in SliceKeys : ~SliceAbsent(state, k)
    /\ rd.mode = "cell" /\ rd.op = "totalResultsSignal" /\ rd.phase = "live"
    /\ rd.value = selectTotalResults(state)
    /\ rd.value \notin {Undefined, Num(0)}

\* C29: the type strings of the exported creators are pairwise distinct, and
\* two calls of different typed helpers never put the same type on the store.
C29_DiscriminatorsPairwiseDistinct ==
    /\ \A a, b \in DOMAIN TypeOf : a # b => TypeOf[a] # TypeOf[b]
    /\ \A i, j \in DOMAIN calls :
           (calls[i].origin = "helper" /\ calls[j].origin = "helper"
               /\ calls[i].method # calls[j].method)
           => \A m \in ArrivedIn(i), n \in ArrivedIn(j) :
                  dispatched[m].action.type # dispatched[n].action.type

\* setSortBy('rank') and updateSortByParam('rank') put two actions with the
\* same props and different types on the store
C29_Witness ==
    /\ Len(calls) = 2 /\ Len(dispatched) = 2
    /\ calls[1].method = "setSortBy" /\ calls[2].method = "updateSortByParam"
    /\ dispatched[1].action.props = dispatched[2].action.props
    /\ dispatched[1].action.type = "[search] Sort By Changed"
    /\ dispatched[2].action.type = "[Filter] Update Sort By Param"

(***************************************************************************)
(* The documents of the Search slice (SpecStream).                         *)
(***************************************************************************)
\* Search.entities of store state s, undefined when it cannot be reached
EntitiesOf(s) == OptGet(Get(s, "Search"), "entities")

EntityKeys(s) == IF EntitiesOf(s).t = "object" THEN DOMAIN EntitiesOf(s).v ELSE {}

\* docs is the sequence of the defined values of Search.entities of s
HoldsTheDefinedEntities(docs, s) ==
    /\ docs.t = "array"
    /\ \A i \in DOMAIN docs.v : docs.v[i] # Undefined
    /\ Len(docs.v) <= Cardinality(EntityKeys(s))
    /\ \A k \in EntityKeys(s) :
           EntitiesOf(s).v[k] # Undefined
           => Cardinality({ i \in DOMAIN docs.v : docs.v[i] = EntitiesOf(s).v[k] }) = 1
    /\ \A i \in DOMAIN docs.v :
           \E k \in EntityKeys(s) : docs.v[i] = EntitiesOf(s).v[k]
    /\ EntitiesOf(s) = Undefined => docs = Arr(<<>>)
    /\ \A id \in DocIds :
           (Selector("selectDocById$", id, s) # Undefined)
           <=> (\E i \in DOMAIN docs.v :
                    docs.v[i] = Selector("selectDocById$", id, s))

\* C30: in every store state selectAllDocs$(), getAllDocs() and
\* allDocsSignal() yield exactly the values of Search.entities that are not
\* undefined: no undefined element, at most one element per entity key,
\* every defined entity once, the empty sequence when Search or
\* Search.entities is absent; a document is in the sequence exactly when
\* selectDocById$ for its key yields it.  A live subscriber of
\* selectAllDocs$() holds that sequence.
C30_AllDocsAreTheDefinedEntities ==
    /\ \A op \in {"selectAllDocs$", "getAllDocs", "allDocsSignal"} :
           HoldsTheDefinedEntities(Selector(op, "", state), state)
    /\ \A i \in DOMAIN subs :
           (subs[i].op = "selectAllDocs$" /\ subs[i].phase = "live")
           => HoldsTheDefinedEntities(subs[i].value, state)

\* a subscriber of selectAllDocs$() holds the one document of an entity
\* dictionary whose second key is undefined
C30_Witness ==
    /\ Len(subs) > 0
    /\ subs[1].op = "selectAllDocs$" /\ subs[1].phase = "live"
    /\ EntityKeys(state) = {"a", "b"}
    /\ EntitiesOf(state).v["b"] = Undefined
    /\ subs[1].value = Arr(<<DocA>>)

====
